---- MODULE Spec2Model ----
(***************************************************************************)
(* Model of scripts/usb_monitor.py (class USBMonitor).                     *)
(*                                                                         *)
(* Threads of the program:                                                 *)
(*   - the pyudev MonitorObserver thread, which calls handle_udev_event    *)
(*     for one event at a time (variable pc is its position);              *)
(*   - one daemon thread per viewer launch (threading.Thread started by    *)
(*     handle_device_add, target launch_chromium), variable tasks.         *)
(* Text is modelled as sequences of one-character strings so that          *)
(* split('/'), string concatenation and os.path.join are computed.         *)
(* The external utilities (mount, umount, rmdir, Popen) are the            *)
(* environment: their outcome is a nondeterministic choice.  pkill is      *)
(* taken to terminate every process whose command line matches.            *)
(***************************************************************************)
EXTENDS Integers, Sequences, FiniteSets, TLC

\* ------------------------------------------------------------------ bounds
\* number of launch threads that may be started in one run
MaxLaunch == 2
\* number of entries the kernel mount table may hold
MaxMounts == 2
\* length of the DEVNAME and ID_FS_LABEL texts given to get_device_info
MaxStr == 3

\* --------------------------------------------------------------- constants
MOUNT_BASE == <<"/","m","n","t","/","c","a","s","e","t","t","e">>
MARKER == <<"i","n","d","e","x",".","h","t","m","l">>
USB_PREFIX == <<"u","s","b","_">>
None == <<"None">>
ERR == "ERR"
\* a property value that pyudev cannot decode: reading it raises
Undecodable == <<"\\xff">>

\* ---------------------------------------------------------- device events
\* A device descriptor: the property mapping read with device.get and the
\* subsystems met walking device, device.parent, ... ; ERR stands for an
\* access that raises.
DeviceTable ==
  << [props |-> [DEVNAME |-> <<"/","d","e","v","/","s","d","b","1">>],
      chain |-> <<"block","scsi","usb","pci">>],
     [props |-> [DEVNAME |-> <<"/","d","e","v","/","s","d","c","1">>,
                 ID_FS_LABEL |-> <<"D","A","T","A">>],
      chain |-> <<"block","usb","usb">>],
     [props |-> [DEVNAME |-> <<"/","d","e","v","/","s","d","a","1">>,
                 ID_FS_LABEL |-> <<"r","o","o","t">>],
      chain |-> <<"block","scsi","pci">>],
     [props |-> [DEVNAME |-> <<"/","d","e","v","/","s","d","d","1">>],
      chain |-> <<"block",ERR,"usb">>],
     [props |-> [DEVNAME |-> <<"/","d","e","v","/","s","d","e","1">>,
                 ID_FS_LABEL |-> <<"D","A","T","A">>],
      chain |-> <<"block","usb">>],
     [props |-> [DEVNAME |-> <<"/","d","e","v","/","s","d","f","1">>,
                 ID_FS_LABEL |-> Undecodable],
      chain |-> <<"block","usb">>] >>

Devices == 1..Len(DeviceTable)
\* the devices of a run in which no two filesystem labels are equal
SeparateLabels == {1, 2, 3, 4, 6}
\* the devices of a run with two sticks that carry the same label
SharedLabel == {2, 3, 5}
\* the devices of a run that is followed from process start to exit
LifeDevices == {1, 2, 6}
Actions == {"add", "remove", "change"}

\* device.get(key, default)
Get(props, key, default) ==
  IF key \in DOMAIN props THEN props[key] ELSE default

\* s.split('/')[-1]
SplitLastWhole(s) == s
SplitLast(s) ==
  LET idx == {i \in 1..Len(s) : s[i] = "/"}
      last == IF idx = {} THEN 0 ELSE CHOOSE i \in idx : \A j \in idx : j <= i
  IN  SubSeq(s, last + 1, Len(s))

\* os.path.join(a, b)
PathJoin(a, b) ==
  IF b # <<>> /\ b[1] = "/" THEN b
  ELSE IF a = <<>> \/ a[Len(a)] = "/" THEN a \o b
  ELSE a \o <<"/">> \o b

\* the walk of is_usb_device: "true", "false" or "raise"
RECURSIVE WalkChain(_, _)
WalkChain(chain, i) ==
  IF i > Len(chain) THEN "false"
  ELSE IF chain[i] = ERR THEN "raise"
  ELSE IF chain[i] = "usb" THEN "true"
  ELSE WalkChain(chain, i + 1)

is_usb_device_buggy(device) == WalkChain(device.chain, 1) # "false"
is_usb_device(device) == WalkChain(device.chain, 1) = "true"

\* device.get raises for this descriptor, and so does get_device_info
GetRaises(device) ==
  \E k \in DOMAIN device.props : device.props[k] = Undecodable

get_device_info(device) ==
  LET device_name == Get(device.props, "DEVNAME", <<>>)
      device_label == Get(device.props, "ID_FS_LABEL", <<>>)
  IN  [name |-> device_name,
       label |-> IF device_label # <<>> THEN device_label
                 ELSE USB_PREFIX \o SplitLast(device_name)]

MountPointOf(device_info) == PathJoin(MOUNT_BASE, device_info.label)

Names == {get_device_info(DeviceTable[d]).name : d \in Devices}
\* what get_device_info returns for each device of the table
InfoTable == [d \in Devices |-> get_device_info(DeviceTable[d])]
InfoOf(d) == InfoTable[d]
NameOf(d) == InfoOf(d).name

\* ------------------------------------------------------------------- state
VARIABLES
  mounted_devices,  \* self.mounted_devices: number of records per device name
  mounts,           \* kernel mount table: sequence of [dev, mp], newest last
  dirs,             \* mount-point directories that exist
  viewers,          \* launch threads whose spawned viewer process is alive
  pc,               \* position of the observer thread
  cur,              \* device of the event being handled (0: none)
  mount_point,      \* local mount_point of handle_device_add
  tasks,            \* launch threads: position, argument and what they did
  ev,               \* record of the event being handled / last handled
  main,             \* the main thread: main() and start_monitoring()
  probe,            \* a device descriptor given to get_device_info, and the result
  present           \* the devices whose events udev may report in this run

vars == <<mounted_devices, mounts, dirs, viewers, pc, cur, mount_point,
          tasks, ev, main, probe, present>>

Tasks == 1..MaxLaunch

\* set() semantics of self.mounted_devices
SetAddList(m, x) == [m EXCEPT ![x] = @ + 1]
SetAdd(m, x) == [m EXCEPT ![x] = 1]
SetDiscardNever(m, x) == m
SetDiscard(m, x) == [m EXCEPT ![x] = 0]
Tracked(m) == {x \in Names : m[x] > 0}

NoEvent ==
  [action |-> "none", dev |-> 0, relevant |-> FALSE, tracked |-> FALSE,
   before |-> {}, mountCalls |-> 0, mountRes |-> "none",
   umountCalls |-> 0, umountRes |-> "none", rmdirCalls |-> 0,
   kills |-> 0, errors |-> 0, tasks |-> {}, marker |-> "none",
   steps |-> <<>>, rmdirRes |-> "none", raised |-> FALSE,
   dirEmpty |-> FALSE, prevUmounts |-> 0, roundTrip |-> FALSE,
   done |-> TRUE]

NewEvent(a, d) ==
  [NoEvent EXCEPT !.action = a, !.dev = d,
                  !.relevant = is_usb_device(DeviceTable[d]),
                  !.tracked = (NameOf(d) \in Tracked(mounted_devices)),
                  !.before = Tracked(mounted_devices),
                  !.prevUmounts =
                     IF a = "remove" /\ ev.action = "remove" /\ ~ev.raised
                        /\ NameOf(ev.dev) = NameOf(d)
                     THEN ev.prevUmounts + ev.umountCalls ELSE 0,
                  !.roundTrip = /\ a = "remove"
                                /\ ev.action = "add" /\ ev.dev = d
                                /\ ev.mountRes = "ok" /\ ~ev.tracked,
                  !.done = FALSE]

\* main(): before USBMonitor() is constructed
MainStart ==
  [pc |-> "init", observer |-> "unbound", failed |-> "none", fatal |-> FALSE,
   interrupted |-> FALSE, cleaned |-> FALSE, exit |-> -1,
   snapshot |-> {}, todo |-> {}, attempted |-> {}, failures |-> {}]

NoProbe == [phase |-> "none", device |-> [props |-> <<>>], info |-> None,
            mount_point |-> None]

NoTask == [pc |-> "none", html_path |-> None, kills |-> 0, spawns |-> 0]

\* start_monitoring has started the observer and sleeps in its loop
MainLoop == [MainStart EXCEPT !.pc = "loop", !.observer = "running"]

\* nothing is mounted, tracked or launched yet
Fresh ==
  /\ mounted_devices = [x \in Names |-> 0]
  /\ mounts = <<>>
  /\ dirs = {}
  /\ viewers = {}
  /\ pc = "idle"
  /\ cur = 0
  /\ mount_point = None
  /\ tasks = [t \in Tasks |-> NoTask]
  /\ ev = NoEvent

\* the service is monitoring
Init ==
  /\ Fresh
  /\ main = MainLoop
  /\ probe = NoProbe
  /\ present = SeparateLabels

\* the service is monitoring, and two sticks carry the same label
InitShared ==
  /\ Fresh
  /\ main = MainLoop
  /\ probe = NoProbe
  /\ present = SharedLabel

\* the process starts
InitLife ==
  /\ Fresh
  /\ main = MainStart
  /\ probe = NoProbe
  /\ present = LifeDevices

FreeTasks == {t \in Tasks : tasks[t].pc = "none"}

\* subprocess.run(['pkill', '-f', 'chromium']): every viewer is terminated
kill_chromium(v) == {}

\* umount(8) detaches the newest mount on mp
LastMountAt(ms, mp) ==
  LET idx == {i \in 1..Len(ms) : ms[i].mp = mp}
  IN  IF idx = {} THEN 0 ELSE CHOOSE i \in idx : \A j \in idx : j <= i

RemoveAt(s, i) == SubSeq(s, 1, i - 1) \o SubSeq(s, i + 1, Len(s))

\* os.makedirs(mount_point, exist_ok=True)
makedirs(mp) == dirs' = dirs \cup {mp}

\* os.rmdir(mount_point), where entries tells whether the directory holds
\* entries of its own: "ok", or the OSError it raises
rmdir_rmtree(ms, mp, entries) ==
  IF mp \notin dirs THEN "missing"
  ELSE IF LastMountAt(ms, mp) # 0 THEN "busy"
  ELSE "ok"
rmdir(ms, mp, entries) ==
  IF mp \notin dirs THEN "missing"
  ELSE IF LastMountAt(ms, mp) # 0 THEN "busy"
  ELSE IF entries THEN "notempty"
  ELSE "ok"

\* ------------------------------------------------- observer thread: add
\* handle_udev_event with action 'add', up to time.sleep(2)
DeliverAdd ==
  /\ main.pc = "loop"
  /\ pc = "idle"
  /\ FreeTasks # {}
  /\ \E d \in present :
       IF is_usb_device(DeviceTable[d]) /\ GetRaises(DeviceTable[d])
       THEN \* the exception leaves handle_udev_event: the thread ends
            /\ ev' = [NewEvent("add", d) EXCEPT !.raised = TRUE]
            /\ pc' = "dead"
            /\ UNCHANGED cur
       ELSE IF is_usb_device(DeviceTable[d])
       THEN /\ ev' = NewEvent("add", d)
            /\ pc' = "add_mount"
            /\ cur' = d
       ELSE /\ ev' = [NewEvent("add", d) EXCEPT !.done = TRUE]
            /\ UNCHANGED <<pc, cur>>
  /\ UNCHANGED <<mounted_devices, mounts, dirs, viewers, mount_point, tasks>>
  /\ UNCHANGED <<main, probe, present>>

\* mount_device and the test of its result
AddMountNoCheck ==
  /\ pc = "add_mount"
  /\ LET info == InfoOf(cur)
         mp == MountPointOf(info)
     IN  \E r \in {"fail", "raise"} :
           /\ makedirs(mp)
           /\ mount_point' = mp
           /\ pc' = "add_track"
           /\ ev' = [ev EXCEPT !.mountCalls = @ + 1, !.mountRes = r,
                               !.errors = @ + 1]
           /\ UNCHANGED <<mounts, cur>>
  /\ UNCHANGED <<mounted_devices, viewers, tasks>>
  /\ UNCHANGED <<main, probe, present>>

AddMount ==
  /\ pc = "add_mount"
  /\ LET info == InfoOf(cur)
         mp == MountPointOf(info)
     IN  \/ \* os.makedirs raises: mount is never run
            /\ ev' = [ev EXCEPT !.mountRes = "mkdir_raise", !.errors = @ + 1,
                                !.done = TRUE]
            /\ pc' = "idle"
            /\ cur' = 0
            /\ mount_point' = None
            /\ UNCHANGED <<mounts, dirs>>
         \/ \* returncode == 0
            /\ Len(mounts) < MaxMounts
            /\ makedirs(mp)
            /\ mounts' = Append(mounts, [dev |-> info.name, mp |-> mp])
            /\ mount_point' = mp
            /\ pc' = "add_track"
            /\ ev' = [ev EXCEPT !.mountCalls = @ + 1, !.mountRes = "ok"]
            /\ UNCHANGED cur
         \/ \* returncode != 0, or subprocess.run raises
            \E r \in {"fail", "raise"} :
              /\ makedirs(mp)
              /\ mount_point' = None
              /\ pc' = "idle"
              /\ cur' = 0
              /\ ev' = [ev EXCEPT !.mountCalls = @ + 1, !.mountRes = r,
                                  !.errors = @ + 1, !.done = TRUE]
              /\ UNCHANGED mounts
  /\ UNCHANGED <<mounted_devices, viewers, tasks>>
  /\ UNCHANGED <<main, probe, present>>

\* threading.Thread(target=self.launch_chromium, args=(index_path,)).start()
StartLaunch(index_path) ==
  LET t == CHOOSE t \in FreeTasks : \A u \in FreeTasks : t <= u
  IN  /\ tasks' = [tasks EXCEPT ![t] = [NoTask EXCEPT !.pc = "kill",
                                                      !.html_path = index_path]]
      /\ ev' = [ev EXCEPT !.marker = "yes", !.tasks = @ \cup {t},
                          !.done = TRUE]

\* self.mounted_devices.add, the index.html test and the thread start
AddTrackAlwaysLaunch ==
  /\ pc = "add_track"
  /\ mounted_devices' = SetAdd(mounted_devices, InfoOf(cur).name)
  /\ \E exists \in BOOLEAN :
       /\ tasks' = [tasks EXCEPT
            ![CHOOSE t \in FreeTasks : \A u \in FreeTasks : t <= u] =
               [NoTask EXCEPT !.pc = "kill",
                              !.html_path = PathJoin(mount_point, MARKER)]]
       /\ ev' = [ev EXCEPT !.marker = IF exists THEN "yes" ELSE "no",
                           !.tasks = @ \cup
                             {CHOOSE t \in FreeTasks : \A u \in FreeTasks : t <= u},
                           !.done = TRUE]
  /\ pc' = "idle"
  /\ cur' = 0
  /\ mount_point' = None
  /\ UNCHANGED <<mounts, dirs, viewers>>
  /\ UNCHANGED <<main, probe, present>>

AddTrackInline ==
  /\ pc = "add_track"
  /\ mounted_devices' = SetAdd(mounted_devices, InfoOf(cur).name)
  /\ \E exists \in BOOLEAN :
       IF exists
       THEN LET t == CHOOSE t \in FreeTasks : \A u \in FreeTasks : t <= u
            IN  /\ tasks' = [tasks EXCEPT ![t] =
                      [NoTask EXCEPT !.pc = "done", !.kills = 1, !.spawns = 1,
                                     !.html_path = PathJoin(mount_point, MARKER)]]
                /\ viewers' = {t}
                /\ ev' = [ev EXCEPT !.marker = "yes", !.tasks = @ \cup {t},
                                    !.done = TRUE]
       ELSE /\ ev' = [ev EXCEPT !.marker = "no", !.done = TRUE]
            /\ UNCHANGED <<tasks, viewers>>
  /\ pc' = "idle"
  /\ cur' = 0
  /\ mount_point' = None
  /\ UNCHANGED <<mounts, dirs>>
  /\ UNCHANGED <<main, probe, present>>

AddTrack ==
  /\ pc = "add_track"
  /\ mounted_devices' = SetAdd(mounted_devices, InfoOf(cur).name)
  /\ \E exists \in BOOLEAN :
       IF exists
       THEN StartLaunch(PathJoin(mount_point, MARKER))
       ELSE /\ ev' = [ev EXCEPT !.marker = "no", !.done = TRUE]
            /\ UNCHANGED tasks
  /\ pc' = "idle"
  /\ cur' = 0
  /\ mount_point' = None
  /\ UNCHANGED <<mounts, dirs, viewers>>
  /\ UNCHANGED <<main, probe, present>>

\* ---------------------------------------------- observer thread: remove
\* handle_udev_event with action 'remove', up to the call of unmount_device
DeliverRemoveNoLookup ==
  /\ main.pc = "loop"
  /\ pc = "idle"
  /\ \E d \in present :
       IF is_usb_device(DeviceTable[d])
       THEN /\ ev' = NewEvent("remove", d)
            /\ pc' = "rm_kill"
            /\ cur' = d
       ELSE /\ ev' = [NewEvent("remove", d) EXCEPT !.done = TRUE]
            /\ UNCHANGED <<pc, cur>>
  /\ UNCHANGED <<mounted_devices, mounts, dirs, viewers, mount_point, tasks>>
  /\ UNCHANGED <<main, probe, present>>

DeliverRemove ==
  /\ main.pc = "loop"
  /\ pc = "idle"
  /\ \E d \in present :
       IF is_usb_device(DeviceTable[d]) /\ GetRaises(DeviceTable[d])
       THEN \* the exception leaves handle_udev_event: the thread ends
            /\ ev' = [NewEvent("remove", d) EXCEPT !.raised = TRUE]
            /\ pc' = "dead"
            /\ UNCHANGED cur
       ELSE
       IF /\ is_usb_device(DeviceTable[d])
          /\ NameOf(d) \in Tracked(mounted_devices)
       THEN /\ ev' = NewEvent("remove", d)
            /\ pc' = "rm_kill"
            /\ cur' = d
       ELSE /\ ev' = [NewEvent("remove", d) EXCEPT !.done = TRUE]
            /\ UNCHANGED <<pc, cur>>
  /\ UNCHANGED <<mounted_devices, mounts, dirs, viewers, mount_point, tasks>>
  /\ UNCHANGED <<main, probe, present>>

\* unmount_device: self.kill_chromium(), then time.sleep(2)
RmKill ==
  /\ pc = "rm_kill"
  /\ viewers' = kill_chromium(viewers)
  /\ ev' = [ev EXCEPT !.kills = @ + 1, !.steps = Append(@, "kill")]
  /\ pc' = "rm_umount"
  /\ UNCHANGED <<mounted_devices, mounts, dirs, cur, mount_point, tasks>>
  /\ UNCHANGED <<main, probe, present>>

\* unmount_device: sudo umount, and os.rmdir when it returned 0
RmUmountAlwaysRmdir ==
  /\ pc = "rm_umount"
  /\ LET info == InfoOf(cur)
         mp == MountPointOf(info)
         i == LastMountAt(mounts, mp)
     IN  \E r \in {"ok", "fail", "raise"}, entries \in BOOLEAN :
           LET left == IF r = "ok" THEN RemoveAt(mounts, i) ELSE mounts
               res == rmdir(left, mp, entries)
           IN  /\ r = "ok" => i # 0
               /\ mounts' = left
               /\ dirs' = IF res = "ok" THEN dirs \ {mp} ELSE dirs
               /\ ev' = [ev EXCEPT
                     !.umountCalls = @ + 1, !.umountRes = r,
                     !.rmdirCalls = @ + 1, !.rmdirRes = res,
                     !.dirEmpty = ~entries,
                     !.steps = @ \o <<"umount", "rmdir">>]
  /\ pc' = "rm_discard"
  /\ UNCHANGED <<mounted_devices, viewers, cur, mount_point, tasks>>
  /\ UNCHANGED <<main, probe, present>>

RmUmount ==
  /\ pc = "rm_umount"
  /\ LET info == InfoOf(cur)
         mp == MountPointOf(info)
         i == LastMountAt(mounts, mp)
     IN  \/ \* returncode == 0, then os.rmdir; OSError is logged
            \E entries \in BOOLEAN :
              LET left == RemoveAt(mounts, i)
                  res == rmdir(left, mp, entries)
              IN  /\ i # 0
                  /\ mounts' = left
                  /\ dirs' = IF res = "ok" THEN dirs \ {mp} ELSE dirs
                  /\ ev' = [ev EXCEPT
                        !.umountCalls = @ + 1, !.umountRes = "ok",
                        !.rmdirCalls = @ + 1, !.rmdirRes = res,
                     !.dirEmpty = ~entries,
                        !.steps = @ \o <<"umount", "rmdir">>]
         \/ \* returncode != 0, or subprocess.run raises
            \E r \in {"fail", "raise"} :
              /\ ev' = [ev EXCEPT !.umountCalls = @ + 1, !.umountRes = r,
                                  !.errors = @ + 1,
                                  !.steps = Append(@, "umount")]
              /\ UNCHANGED <<mounts, dirs>>
  /\ pc' = "rm_discard"
  /\ UNCHANGED <<mounted_devices, viewers, cur, mount_point, tasks>>
  /\ UNCHANGED <<main, probe, present>>

\* self.mounted_devices.discard(device_name)
RmDiscardOnSuccess ==
  /\ pc = "rm_discard"
  /\ mounted_devices' = IF ev.umountRes = "ok"
                        THEN SetDiscard(mounted_devices, InfoOf(cur).name)
                        ELSE mounted_devices
  /\ ev' = [ev EXCEPT !.done = TRUE]
  /\ pc' = "idle"
  /\ cur' = 0
  /\ UNCHANGED <<mounts, dirs, viewers, mount_point, tasks>>
  /\ UNCHANGED <<main, probe, present>>

RmDiscard ==
  /\ pc = "rm_discard"
  /\ mounted_devices' = SetDiscard(mounted_devices, InfoOf(cur).name)
  /\ ev' = [ev EXCEPT !.done = TRUE]
  /\ pc' = "idle"
  /\ cur' = 0
  /\ UNCHANGED <<mounts, dirs, viewers, mount_point, tasks>>
  /\ UNCHANGED <<main, probe, present>>

\* handle_udev_event with any other action: ignored
DeliverOther ==
  /\ main.pc = "loop"
  /\ pc = "idle"
  /\ \E d \in present : ev' = [NoEvent EXCEPT !.action = "change"]
  /\ UNCHANGED <<mounted_devices, mounts, dirs, viewers, pc, cur, mount_point,
                 tasks>>
  /\ UNCHANGED <<main, probe, present>>

\* ------------------------------------------------------- launch threads
\* launch_chromium: self.kill_chromium(), then time.sleep(1)
LaunchKill(t) ==
  /\ main.pc # "exited"
  /\ tasks[t].pc = "kill"
  /\ viewers' = kill_chromium(viewers)
  /\ tasks' = [tasks EXCEPT ![t].pc = "spawn", ![t].kills = @ + 1]
  /\ UNCHANGED <<mounted_devices, mounts, dirs, pc, cur, mount_point, ev>>
  /\ UNCHANGED <<main, probe, present>>

\* launch_chromium: subprocess.Popen; an exception is logged. The thread
\* ends here and its argument html_path ends with it.
LaunchSpawn(t) ==
  /\ main.pc # "exited"
  /\ tasks[t].pc = "spawn"
  /\ \/ /\ viewers' = viewers \cup {t}
        /\ tasks' = [tasks EXCEPT ![t].pc = "done", ![t].spawns = @ + 1,
                                  ![t].html_path = None]
     \/ /\ tasks' = [tasks EXCEPT ![t].pc = "done", ![t].html_path = None]
        /\ UNCHANGED viewers
  /\ UNCHANGED <<mounted_devices, mounts, dirs, pc, cur, mount_point, ev>>
  /\ UNCHANGED <<main, probe, present>>

\* ------------------------------------------------------------ main thread
Others == <<mounted_devices, dirs, viewers, pc, cur, mount_point, tasks, ev, probe, present>>

\* main(): monitor = USBMonitor(); pyudev.Context() or Monitor.from_netlink
\* may raise, and main() then logs "Fatal error" and calls sys.exit(1)
MainConstruct ==
  /\ main.pc = "init"
  /\ \/ main' = [main EXCEPT !.pc = "start"]
     \/ main' = [main EXCEPT !.pc = "exited", !.failed = "monitor",
                             !.fatal = TRUE, !.exit = 1]
  /\ UNCHANGED <<Others, mounts>>

\* start_monitoring: MonitorObserver(...) and observer.start(); an exception
\* is logged by "except Exception" and the finally clause runs cleanup
MainStartObserver ==
  /\ main.pc = "start"
  /\ \/ main' = [main EXCEPT !.pc = "loop", !.observer = "running"]
     \/ main' = [main EXCEPT !.pc = "cleanup", !.failed = "observer",
                             !.cleaned = TRUE,
                             !.snapshot = Tracked(mounted_devices),
                             !.todo = Tracked(mounted_devices)]
  /\ UNCHANGED <<Others, mounts>>

\* KeyboardInterrupt in "while True: time.sleep(1)"
MainInterrupt ==
  /\ main.pc = "loop"
  /\ main' = [main EXCEPT !.pc = "stopping", !.interrupted = TRUE]
  /\ UNCHANGED <<Others, mounts>>

\* observer.stop() returns once the observer thread has ended; the finally
\* clause then enters cleanup, which iterates list(self.mounted_devices)
MainJoinNoWait ==
  /\ main.pc = "stopping"
  /\ main' = [main EXCEPT !.pc = "cleanup", !.observer = "stopped",
                          !.cleaned = TRUE,
                          !.snapshot = Tracked(mounted_devices),
                          !.todo = Tracked(mounted_devices)]
  /\ UNCHANGED <<Others, mounts>>

MainJoin ==
  /\ main.pc = "stopping"
  /\ pc \in {"idle", "dead"}
  /\ main' = [main EXCEPT !.pc = "cleanup", !.observer = "stopped",
                          !.cleaned = TRUE,
                          !.snapshot = Tracked(mounted_devices),
                          !.todo = Tracked(mounted_devices)]
  /\ UNCHANGED <<Others, mounts>>

\* umount <device> detaches the newest mount of that device
LastMountOf(ms, dev) ==
  LET idx == {i \in 1..Len(ms) : ms[i].dev = dev}
  IN  IF idx = {} THEN 0 ELSE CHOOSE i \in idx : \A j \in idx : j <= i

\* cleanup: one iteration of the for loop; "except Exception: pass"
CleanupStepAbort ==
  /\ main.pc = "cleanup"
  /\ \E x \in main.todo :
       \/ /\ LastMountOf(mounts, x) # 0
          /\ mounts' = RemoveAt(mounts, LastMountOf(mounts, x))
          /\ main' = [main EXCEPT !.todo = @ \ {x}, !.attempted = @ \cup {x}]
       \/ /\ main' = [main EXCEPT !.todo = {}, !.attempted = @ \cup {x},
                                  !.failures = @ \cup {x}]
          /\ UNCHANGED mounts
  /\ UNCHANGED Others

CleanupStep ==
  /\ main.pc = "cleanup"
  /\ \E x \in main.todo :
       \/ \* returncode == 0
          /\ LastMountOf(mounts, x) # 0
          /\ mounts' = RemoveAt(mounts, LastMountOf(mounts, x))
          /\ main' = [main EXCEPT !.todo = @ \ {x}, !.attempted = @ \cup {x}]
       \/ \* returncode != 0, an exception or TimeoutExpired
          /\ main' = [main EXCEPT !.todo = @ \ {x}, !.attempted = @ \cup {x},
                                  !.failures = @ \cup {x}]
          /\ UNCHANGED mounts
  /\ UNCHANGED Others

\* start_monitoring returns, main() returns: exit status 0
MainExit ==
  /\ main.pc = "cleanup"
  /\ main.todo = {}
  /\ main' = [main EXCEPT !.pc = "exited", !.exit = 0]
  /\ UNCHANGED <<Others, mounts>>

\* event handling and viewer launches
Next ==
  \/ DeliverAdd
  \/ AddMount
  \/ AddTrack
  \/ DeliverRemove
  \/ RmKill
  \/ RmUmount
  \/ RmDiscard
  \/ DeliverOther
  \/ \E t \in Tasks : LaunchKill(t)
  \/ \E t \in Tasks : LaunchSpawn(t)

\* the whole process, from main() to exit
NextLife ==
  \/ MainConstruct
  \/ MainStartObserver
  \/ MainInterrupt
  \/ MainJoin
  \/ CleanupStep
  \/ MainExit
  \/ Next

Spec == Init /\ [][Next]_vars
SpecShared == InitShared /\ [][Next]_vars
SpecLife == InitLife /\ [][NextLife]_vars

\* ------------------------------------------- get_device_info on its own
Alphabet == {"/", ".", "a"}
ProbeStrings == UNION {[1..k -> Alphabet] : k \in 0..MaxStr}
\* property mappings with and without DEVNAME and ID_FS_LABEL
ProbeProps ==
  {<<>>, DeviceTable[1].props}
    \cup {[DEVNAME |-> n] : n \in ProbeStrings}
    \cup {[ID_FS_LABEL |-> l] : l \in ProbeStrings}
    \cup {[DEVNAME |-> n, ID_FS_LABEL |-> l] :
             n \in ProbeStrings, l \in ProbeStrings}

InitIdentify ==
  /\ Fresh
  /\ main = MainLoop
  /\ present = {}
  /\ \E p \in ProbeProps :
       probe = [NoProbe EXCEPT !.phase = "in", !.device = [props |-> p]]

\* handle_device_add: get_device_info, then mount_point of mount_device
Identify ==
  /\ probe.phase = "in"
  /\ probe' = [probe EXCEPT
        !.phase = "out",
        !.info = get_device_info(probe.device),
        !.mount_point = MountPointOf(get_device_info(probe.device))]
  /\ UNCHANGED <<mounted_devices, mounts, dirs, viewers, pc, cur, mount_point,
                 tasks, ev, main, present>>

NextIdentify == Identify

SpecIdentify == InitIdentify /\ [][NextIdentify]_vars

\* ------------------------------------------------------------- properties
\* the handling of the last delivered event has returned
HandledAdd == ev.action = "add" /\ ev.relevant /\ ev.done
HandledRemove == ev.action = "remove" /\ ev.relevant /\ ev.done
EvName == NameOf(ev.dev)
\* kills issued for the event: by its handler and by the launches it started
RECURSIVE SumKills(_)
SumKills(S) ==
  IF S = {} THEN 0
  ELSE LET t == CHOOSE t \in S : TRUE IN tasks[t].kills + SumKills(S \ {t})
EvKills == ev.kills + SumKills(ev.tasks)

\* C1: in every reachable state at most one viewer process is running.
C1_AtMostOneViewer == Cardinality(viewers) <= 1

\* C2: once the handling of a remove event for a tracked device has
\* completed, no viewer process is running.
C2_NoViewerAfterRemove ==
  (HandledRemove /\ ev.tracked) => viewers = {}

\* C3 (as stated): when umount exits non-zero for a tracked device, the
\* device is still in the tracked set after the remove handling, and umount
\* was run once.
C3_RecordKeptOnUnmountFailure ==
  (HandledRemove /\ ev.umountRes = "fail") =>
     /\ EvName \in Tracked(mounted_devices)
     /\ ev.umountCalls = 1

\* C3 (amended): when umount exits non-zero for a tracked device, the device
\* is removed from the tracked set all the same once the remove handling has
\* completed, and umount was run exactly once (no retry).
C3_RecordDroppedOnUnmountFailure ==
  (HandledRemove /\ ev.umountRes = "fail") =>
     /\ EvName \notin Tracked(mounted_devices)
     /\ ev.umountCalls = 1

C3_Witness ==
  HandledRemove /\ ev.tracked /\ ev.umountRes = "fail" /\ ev.kills = 1

\* C4: the handling of a remove event for a tracked USB device ends with the
\* device absent from the tracked set, whatever umount did.
C4_RemoveAlwaysUntracks ==
  (HandledRemove /\ ev.tracked) =>
     /\ ev.umountRes \in {"ok", "fail", "raise"}
     /\ EvName \notin Tracked(mounted_devices)

C4_Witness ==
  HandledRemove /\ ev.tracked /\ ev.umountRes = "raise"
     /\ mounts # <<>> /\ mounts[Len(mounts)].dev = EvName

\* C5: when mount exits non-zero or raises during an add, the tracked set is
\* unchanged, no viewer kill or launch is started for the event, and mount
\* was invoked exactly once.
C5_MountFailureLeavesNoTrace ==
  (HandledAdd /\ ev.mountRes \in {"fail", "raise"}) =>
     /\ Tracked(mounted_devices) = ev.before
     /\ (~ev.tracked => EvName \notin Tracked(mounted_devices))
     /\ EvKills = 0
     /\ ev.tasks = {}
     /\ ev.mountCalls = 1

C5_Witness ==
  HandledAdd /\ ev.mountRes = "fail" /\ ~ev.tracked /\ ev.mountCalls = 1

\* C6: a remove event for a device that is not tracked runs no umount, kills
\* no viewer, reports no error and leaves the tracked set unchanged.
C6_UntrackedRemoveIsNoOp ==
  (HandledRemove /\ ~ev.tracked) =>
     /\ ev.umountCalls = 0
     /\ ev.rmdirCalls = 0
     /\ EvKills = 0
     /\ ev.errors = 0
     /\ Tracked(mounted_devices) = ev.before

\* the device's add failed to mount and is then removed
C6_Witness ==
  /\ HandledRemove /\ ~ev.tracked
  /\ \E i \in 1..Len(mounts) : mounts[i].dev # EvName
  /\ MountPointOf(InfoOf(ev.dev)) \in dirs
  /\ LastMountAt(mounts, MountPointOf(InfoOf(ev.dev))) = 0

\* C7: remove events of one device that follow each other with no other
\* event in between run umount at most once in total.
C7_UnmountIdempotent ==
  (ev.action = "remove" /\ ev.relevant) =>
     ev.prevUmounts + ev.umountCalls <= 1

\* the second of two consecutive removes has been handled
C7_Witness ==
  HandledRemove /\ ~ev.tracked /\ ev.prevUmounts = 1

\* C8: the tracked state never holds two records for one device path.
C8_OneRecordPerDevice ==
  \A x \in Names : mounted_devices[x] <= 1

\* a second add of a tracked device has mounted and been recorded
C8_Witness ==
  HandledAdd /\ ev.tracked /\ ev.mountRes = "ok"

\* no USB node is met on the parent chain before it ends or fails to resolve
NoUsbNode(chain) ==
  ~\E i \in 1..Len(chain) :
      chain[i] = "usb" /\ \A j \in 1..(i - 1) : chain[j] # ERR

\* C9: for a device with no USB node in its parent chain, or whose chain
\* cannot be resolved, the classifier returns false and its add or remove
\* event runs no mount, umount or launch and leaves the tracked set alone.
C9_NonUsbNeverRouted ==
  (ev.action \in {"add", "remove"} /\ NoUsbNode(DeviceTable[ev.dev].chain)) =>
     /\ ~ev.relevant
     /\ ev.done /\ pc = "idle"
     /\ ev.mountCalls = 0 /\ ev.umountCalls = 0
     /\ EvKills = 0 /\ ev.tasks = {}
     /\ Tracked(mounted_devices) = ev.before

\* an add of a device whose chain fails to resolve, while something is tracked
C9_Witness ==
  /\ ev.action = "add" /\ ERR \in {DeviceTable[ev.dev].chain[i] :
                                     i \in 1..Len(DeviceTable[ev.dev].chain)}
  /\ ev.before # {}

\* C10: an add whose mount succeeded starts exactly one launch, on
\* <mount point>/index.html, when the marker exists (and that launch spawns
\* at most one viewer); when the marker is absent it kills and launches
\* nothing.
C10_LaunchOncePerMarkedAdd ==
  (HandledAdd /\ ev.mountRes = "ok") =>
     /\ ev.marker \in {"yes", "no"}
     /\ ev.marker = "yes" =>
          /\ Cardinality(ev.tasks) = 1
          /\ \A t \in ev.tasks :
               /\ tasks[t].pc # "none"
               /\ tasks[t].pc \in {"kill", "spawn"} =>
                    tasks[t].html_path =
                      MountPointOf(InfoOf(ev.dev)) \o <<"/">> \o MARKER
               /\ tasks[t].spawns <= 1
               /\ tasks[t].spawns = 1 => tasks[t].pc = "done"
     /\ ev.marker = "no" => (ev.tasks = {} /\ EvKills = 0)

\* the launch of a marked add has spawned its viewer
C10_Witness ==
  /\ HandledAdd /\ ev.mountRes = "ok" /\ ev.marker = "yes"
  /\ \E t \in ev.tasks : tasks[t].spawns = 1 /\ t \in viewers

\* an add without marker has been handled while a viewer is running
C10_WitnessNoMarker ==
  HandledAdd /\ ev.mountRes = "ok" /\ ev.marker = "no" /\ viewers # {}

\* -------------------------------------------------- properties, continued
Slashless(t) == \A i \in 1..Len(t) : t[i] # "/"
PathSafe(label) ==
  /\ label # <<>>
  /\ Slashless(label)
  /\ label \notin {<<".">>, <<".", ".">>}

\* C15: the label of every derived identity is non-empty and safe as one
\* directory name, and the mount point is a direct child of MOUNT_BASE.
C15_LabelIsPathSafe ==
  probe.phase = "out" =>
     /\ PathSafe(probe.info.label)
     /\ probe.mount_point = MOUNT_BASE \o <<"/">> \o probe.info.label

\* C16: without a filesystem label (missing or empty) the label is "usb_"
\* followed by the last path component of DEVNAME and the mount point is
\* MOUNT_BASE/<label>; a non-empty filesystem label is used unchanged.
C16_LabelFallback ==
  probe.phase = "out" =>
     LET n == Get(probe.device.props, "DEVNAME", <<>>)
         l == Get(probe.device.props, "ID_FS_LABEL", <<>>)
     IN  /\ l = <<>> =>
              /\ \E k \in 0..Len(n) :
                   /\ k = 0 \/ n[k] = "/"
                   /\ Slashless(SubSeq(n, k + 1, Len(n)))
                   /\ probe.info.label =
                        <<"u","s","b","_">> \o SubSeq(n, k + 1, Len(n))
              /\ probe.mount_point = MOUNT_BASE \o <<"/">> \o probe.info.label
         /\ l # <<>> => probe.info.label = l

\* /dev/sdb1 without label has been given MOUNT_BASE/usb_sdb1
C16_Witness ==
  /\ probe.phase = "out"
  /\ probe.device.props = DeviceTable[1].props
  /\ probe.mount_point =
       <<"/","m","n","t","/","c","a","s","e","t","t","e","/",
         "u","s","b","_","s","d","b","1">>

\* C11: an error raised while an event is handled is caught: the observer
\* thread is then still dispatching events.
C11_ErrorDoesNotStopDispatch ==
  ev.raised => pc = "idle"

\* C12: when the subscription cannot be established (monitor or observer),
\* the process exits non-zero after logging a fatal error, nothing tracked.
C12_SubscriptionFailureIsFatal ==
  (main.pc = "exited" /\ main.failed # "none") =>
     /\ main.exit # 0
     /\ main.fatal
     /\ Tracked(mounted_devices) = {}

\* C13: cleanup attempts an unmount for every device tracked when it starts,
\* whatever the attempts for the other devices did, and terminates: while
\* it runs the main thread can always step, and each of its steps either
\* takes a device off the list of devices to do or leaves cleanup.
C13_CleanupAttemptsAll ==
  /\ [](main.cleaned =>
          /\ main.attempted \cup main.todo = main.snapshot
          /\ main.attempted \cap main.todo = {}
          /\ main.pc = "exited" => main.attempted = main.snapshot
          /\ main.pc = "cleanup" => ENABLED (CleanupStep \/ MainExit))
  /\ [][(main.pc = "cleanup" /\ main' # main) =>
          \/ main'.todo # main.todo /\ main'.todo \subseteq main.todo
          \/ main.todo = {} /\ main'.pc = "exited"]_vars

\* cleanup of two tracked devices has ended although one attempt failed
C13_Witness ==
  /\ main.pc = "exited"
  /\ Cardinality(main.snapshot) = 2
  /\ Cardinality(main.failures) = 1
  /\ main.attempted = main.snapshot

\* a file system is still mounted on the mount point of the last event
StillMounted == LastMountAt(mounts, MountPointOf(InfoOf(ev.dev))) # 0
DirRemoved == MountPointOf(InfoOf(ev.dev)) \notin dirs

\* C14 (as stated): a successful add of an untracked device followed by its
\* remove leaves the tracked set as before the pair, and the mount-point
\* directory is removed if and only if umount succeeded and the directory
\* was empty.
C14_RoundTripRemovesEmptyDir ==
  (HandledRemove /\ ev.roundTrip) =>
     /\ Tracked(mounted_devices) = ev.before \ {EvName}
     /\ DirRemoved <=> (ev.umountRes = "ok" /\ ev.dirEmpty)

\* C14 (amended): ... the mount-point directory is removed if and only if
\* umount succeeded, the directory was empty and no other file system is
\* still mounted on it.
C14_RoundTripRemovesFreeEmptyDir ==
  (HandledRemove /\ ev.roundTrip) =>
     /\ Tracked(mounted_devices) = ev.before \ {EvName}
     /\ DirRemoved <=> (ev.umountRes = "ok" /\ ev.dirEmpty /\ ~StillMounted)

C14_Witness ==
  /\ HandledRemove /\ ev.roundTrip
  /\ ev.umountRes = "ok" /\ ev.rmdirRes = "ok" /\ DirRemoved
  /\ Tracked(mounted_devices) # {}

\* C17: after an interrupt the observer is stopped before cleanup begins and
\* cleanup is run before the process exits; however the loop ends, no event
\* is being handled or gets handled once cleanup has started.
C17_StoppedBeforeCleanup ==
  /\ [](main.cleaned =>
          /\ main.observer # "running"
          /\ main.interrupted => main.observer = "stopped"
          /\ pc \in {"idle", "dead"})
  /\ []((main.pc = "exited" /\ main.interrupted) => main.cleaned)
  /\ [][main.cleaned =>
          (ev' = ev /\ pc' = pc /\ mounted_devices' = mounted_devices)]_vars

\* cleanup has run after an interrupt that followed a tracked remove
C17_Witness ==
  /\ main.pc = "exited" /\ main.interrupted /\ main.cleaned
  /\ HandledRemove /\ ev.tracked
  /\ main.snapshot # {}

\* C18: unmount issues the kill, waits, runs umount exactly once, and only
\* after a successful umount attempts rmdir; an rmdir failure is not an
\* unmount failure.
C18_UnmountOrder ==
  (ev.action = "remove" /\ ev.relevant /\ ev.tracked) =>
     /\ pc = "rm_kill" => ev.steps = <<>>
     /\ pc = "rm_umount" => ev.steps = <<"kill">>
     /\ pc \in {"rm_discard", "idle", "dead"} =>
          /\ ev.steps \in {<<"kill", "umount">>, <<"kill", "umount", "rmdir">>}
          /\ ev.umountCalls = 1 /\ ev.kills = 1
          /\ Len(ev.steps) = 3 <=> ev.umountRes = "ok"
          /\ ev.rmdirCalls = Len(ev.steps) - 2
          /\ ev.rmdirRes \in {"busy", "notempty", "missing"} =>
               (ev.umountRes = "ok" /\ ev.errors = 0)

\* the directory could not be removed and the remove handling completed
C18_Witness ==
  /\ HandledRemove /\ ev.tracked
  /\ ev.steps = <<"kill", "umount", "rmdir">>
  /\ ev.rmdirRes = "notempty"

\* C19: the launch runs apart from event handling: the add handler returns
\* with its launch thread not yet run, and no step of a launch thread
\* touches the tracked set or the event handling.
C19_LaunchIsDetached ==
  [][/\ (\E t \in Tasks : LaunchKill(t) \/ LaunchSpawn(t)) =>
          /\ mounted_devices' = mounted_devices
          /\ pc' = pc /\ ev' = ev
     /\ (pc = "add_track" /\ pc' = "idle") =>
          /\ viewers' = viewers
          /\ \A t \in Tasks :
               tasks'[t] # tasks[t] =>
                  (tasks[t].pc = "none" /\ tasks'[t].pc = "kill")]_vars

\* a remove was handled to its end while the launch of the add has not run
C19_Witness ==
  /\ HandledRemove /\ ev.tracked
  /\ \E t \in Tasks :
       /\ tasks[t].pc = "kill"
       /\ tasks[t].html_path = PathJoin(MountPointOf(InfoOf(ev.dev)), MARKER)

\* C20: two distinct tracked device paths have distinct mount points.
C20_DistinctMountPoints ==
  \A d1, d2 \in Devices :
     (/\ NameOf(d1) # NameOf(d2)
      /\ {NameOf(d1), NameOf(d2)} \subseteq Tracked(mounted_devices))
       => MountPointOf(InfoOf(d1)) # MountPointOf(InfoOf(d2))
====
